---- MODULE Spec2Model ----
(***************************************************************************)
(* TiFlash configuration synthesis of tidb-operator                        *)
(* (pkg/manager/member/tiflash_util.go): GetTiFlashConfig and its two      *)
(* dialects getTiFlashConfig (legacy) and getTiFlashConfigV2 (current),    *)
(* and buildTiFlashSidecarContainers, run by reconcile workers over a      *)
(* TidbCluster object held by the caller.                                  *)
(*                                                                         *)
(* Configuration values are tagged tuples of strings: <<"str", s>>,        *)
(* <<"int", decimal>>, <<"bool", b>>, <<"float", f>>, <<"list", e1, ...>>. *)
(* Integers are kept as decimal strings because the int64 defaults         *)
(* (5368709120, 10000000000) do not fit the checker's integers.            *)
(***************************************************************************)
EXTENDS Integers, Sequences, FiniteSets, TLC

\* ------------------------------------------------------------------ bounds

\* Largest number of declared storage claims (tc.Spec.TiFlash.StorageClaims).
MaxStorageClaims == 2
\* Number of times the caller feeds a returned document back as the partial
\* input of the cluster object.
MaxResubmit == 1
\* Largest number of workers Run starts for the restore controller.
MaxRestoreWorkers == 2
\* Number of restore objects whose keys are enqueued.
NumRestores == 2
\* Largest number of rate-limited requeues the limiter counts for one key.
MaxRequeues == 2

\* ------------------------------------------------------------ value types

NIL == <<>>
Str(s) == <<"str", s>>
Int64(s) == <<"int", s>>
Bool(b) == <<"bool", b>>
Float(f) == <<"float", f>>
StrList(l) == <<"list">> \o l

\* ------------------------------------------------------- ConfigDocument
\* A document wrapper is [nil |-> BOOLEAN, MP |-> [dotted key -> value]].

EmptyMP == [k \in {} |-> NIL]
NilDoc == [nil |-> TRUE, MP |-> EmptyMP]
NewDoc == [nil |-> FALSE, MP |-> EmptyMP]

Get(c, k) == IF k \in DOMAIN c.MP THEN c.MP[k] ELSE NIL

Set(c, k, v) ==
  [c EXCEPT !.MP = [x \in (DOMAIN c.MP) \cup {k} |-> IF x = k THEN v ELSE c.MP[x]]]

SetIfNil(c, k, v) == IF Get(c, k) = NIL THEN Set(c, k, v) ELSE c

Del(c, k) == [c EXCEPT !.MP = [x \in (DOMAIN c.MP) \ {k} |-> c.MP[x]]]

\* SetIfNil for each <<key, value>> of a sequence, in order: a key the
\* document holds keeps its value, any other gets the first value listed for it.
SetAllIfNil(c, kvs) ==
  LET firstAt(k) == CHOOSE i \in 1..Len(kvs) :
                      kvs[i][1] = k /\ \A j \in 1..(i - 1) : kvs[j][1] # k
  IN [c EXCEPT !.MP = [x \in (DOMAIN c.MP) \cup {kvs[i][1] : i \in 1..Len(kvs)} |->
                         IF x \in DOMAIN c.MP THEN c.MP[x] ELSE kvs[firstAt(x)][2]]]

\* A TiFlashConfigWraper is [nil, Common, Proxy]; the nil pointer is NilConfig.
NilConfig == [nil |-> TRUE, Common |-> NilDoc, Proxy |-> NilDoc]
NewTiFlashConfig == [nil |-> FALSE, Common |-> NilDoc, Proxy |-> NilDoc]
NewTiFlashCommonConfig == NewDoc
NewTiFlashProxyConfig == NewDoc

\* -------------------------------------------------------- source constants

defaultClusterLog == "/data0/logs/flash_cluster_manager.log"
defaultErrorLog == "/data0/logs/error.log"
defaultServerLog == "/data0/logs/server.log"
listenHostForIPv4 == "0.0.0.0"
listenHostForIPv6 == "[::]"

tiflashCertPath == "/var/lib/tiflash-tls"
ServiceAccountRootCAKey == "ca.crt"
TLSCertKey == "tls.crt"
TLSPrivateKeyKey == "tls.key"
PathJoin(dir, base) == dir \o "/" \o base

\* ------------------------------------------------- controller name helpers

TiDBMemberName(n) == n \o "-tidb"
TiDBPeerMemberName(n) == n \o "-tidb-peer"
PDMemberName(n) == n \o "-pd"
TiFlashMemberName(n) == n \o "-tiflash"
TiFlashPeerMemberName(n) == n \o "-tiflash-peer"
FormatClusterDomain(d) == IF d = "" THEN "" ELSE "." \o d

\* ------------------------------------------------------- version constraint
\* Version strings are sequences of one-character strings.

DigitVal ==
  [c \in {"0", "1", "2", "3", "4", "5", "6", "7", "8", "9"} |->
     CASE c = "0" -> 0 [] c = "1" -> 1 [] c = "2" -> 2 [] c = "3" -> 3
       [] c = "4" -> 4 [] c = "5" -> 5 [] c = "6" -> 6 [] c = "7" -> 7
       [] c = "8" -> 8 [] c = "9" -> 9]

\* Splits a character sequence at every "."
RECURSIVE SplitDots(_, _)
SplitDots(s, cur) ==
  IF s = <<>> THEN <<cur>>
  ELSE IF Head(s) = "." THEN <<cur>> \o SplitDots(Tail(s), <<>>)
  ELSE SplitDots(Tail(s), Append(cur, Head(s)))

\* The number a run of digits denotes, -1 when it is empty or not all digits.
RECURSIVE ParseNum(_, _)
ParseNum(part, acc) ==
  IF part = <<>> THEN acc
  ELSE IF Head(part) \notin DOMAIN DigitVal THEN -1
  ELSE ParseNum(Tail(part), (IF acc < 0 THEN 0 ELSE acc) * 10 + DigitVal[Head(part)])

\* Parses [v]MAJOR[.MINOR[.PATCH]]; err is TRUE for anything else.
NewVersion(s) ==
  LET body == IF s # <<>> /\ Head(s) = "v" THEN Tail(s) ELSE s
      parts == SplitDots(body, <<>>)
      nums == [i \in 1..Len(parts) |-> ParseNum(parts[i], -1)]
      bad == Len(parts) > 3 \/ \E i \in 1..Len(parts) : nums[i] < 0
      at(i) == IF i <= Len(parts) THEN nums[i] ELSE 0
  IN IF bad THEN [err |-> TRUE, v |-> <<0, 0, 0>>]
     ELSE [err |-> FALSE, v |-> <<at(1), at(2), at(3)>>]

\* a >= b on <<major, minor, patch>>
VersionGE(a, b) ==
  \/ a[1] > b[1]
  \/ a[1] = b[1] /\ a[2] > b[2]
  \/ a[1] = b[1] /\ a[2] = b[2] /\ a[3] >= b[3]

\* tiflashEqualOrGreaterThanV540.Check(version): the pair (ok, err)
tiflashEqualOrGreaterThanV540(version) ==
  LET p == NewVersion(version)
  IN IF p.err THEN [ok |-> FALSE, err |-> TRUE]
     ELSE [ok |-> VersionGE(p.v, <<5, 4, 0>>), err |-> FALSE]

\* ------------------------------------------------------------ TidbCluster
\* tc is [Name, Namespace, ClusterDomain, Version, PreferIPv6, TLS,
\*        StorageClaims, Cluster, AcrossK8s, PD, TiDB]; Cluster is the
\* reference-cluster descriptor [nil, Name, Namespace, ClusterDomain].

NoRef == [nil |-> TRUE, Name |-> "", Namespace |-> "", ClusterDomain |-> ""]

TiFlashVersion(tc) == tc.Version
IsTLSClusterEnabled(tc) == tc.TLS
Heterogeneous(tc) == ~tc.Cluster.nil
AcrossK8s(tc) == tc.AcrossK8s
WithoutLocalPD(tc) == ~tc.PD
WithoutLocalTiDB(tc) == ~tc.TiDB

\* Variant of StoragePaths that numbers the volumes from 1.
StoragePaths_fromOne(n) == [i \in 1..n |-> "/data" \o ToString(i) \o "/db"]

\* fmt.Sprintf("/data%d/db", i) for i = 0 .. n-1
StoragePaths(n) == [i \in 1..n |-> "/data" \o ToString(i - 1) \o "/db"]

\* strings.Join
RECURSIVE Join(_, _)
Join(l, sep) ==
  IF l = <<>> THEN ""
  ELSE IF Len(l) = 1 THEN l[1]
  ELSE l[1] \o sep \o Join(Tail(l), sep)

\* "%s-POD_NUM.%s.%s.svc%s:<port>" of the local TiFlash peer service
TiFlashPodAddr(name, ns, clusterDomain, port) ==
  TiFlashMemberName(name) \o "-POD_NUM." \o TiFlashPeerMemberName(name) \o "."
    \o ns \o ".svc" \o FormatClusterDomain(clusterDomain) \o ":" \o port

\* ------------------------------------------------------- legacy dialect

setTiFlashLogConfigDefault(config) ==
  LET c1 == IF config.Common.nil
            THEN [config EXCEPT !.Common = NewTiFlashCommonConfig] ELSE config
  IN [c1 EXCEPT !.Common = SetAllIfNil(@, <<
        <<"flash.flash_cluster.log", Str(defaultClusterLog)>>,
        <<"logger.errorlog", Str(defaultErrorLog)>>,
        <<"logger.log", Str(defaultServerLog)>> >>)]

\* Variant of setTiFlashProxyConfigDefault that binds the status address to the
\* IPv4 listen host whatever the preference is.
setTiFlashProxyConfigDefault_ipv4Only(config, clusterName, ns, clusterDomain, listenHost) ==
  SetAllIfNil(config, <<
    <<"log-level", Str("info")>>,
    <<"server.engine-addr", Str(TiFlashPodAddr(clusterName, ns, clusterDomain, "3930"))>>,
    <<"server.status-addr", Str(listenHostForIPv4 \o ":20292")>>,
    <<"server.advertise-status-addr", Str(TiFlashPodAddr(clusterName, ns, clusterDomain, "20292"))>> >>)

setTiFlashProxyConfigDefault(config, clusterName, ns, clusterDomain, listenHost) ==
  SetAllIfNil(config, <<
    <<"log-level", Str("info")>>,
    <<"server.engine-addr", Str(TiFlashPodAddr(clusterName, ns, clusterDomain, "3930"))>>,
    <<"server.status-addr", Str(listenHost \o ":20292")>>,
    <<"server.advertise-status-addr", Str(TiFlashPodAddr(clusterName, ns, clusterDomain, "20292"))>> >>)

\* Variant of setTiFlashFlashConfigDefault with the reference cluster's peer and
\* cluster-local TiDB services exchanged.
setTiFlashFlashConfigDefault_swapped(config, ref, clusterName, ns, clusterDomain, listenHost, noLocalTiDB, acrossK8s) ==
  LET local == TiDBMemberName(clusterName) \o "." \o ns \o ".svc:10080"
      tidbStatusAddr ==
        IF noLocalTiDB /\ ~ref.nil
        THEN IF acrossK8s
             THEN TiDBMemberName(ref.Name) \o "." \o ref.Namespace \o ".svc"
                    \o FormatClusterDomain(ref.ClusterDomain) \o ":10080"
             ELSE TiDBPeerMemberName(ref.Name) \o "." \o ref.Namespace \o ".svc"
                    \o FormatClusterDomain(ref.ClusterDomain) \o ":10080"
        ELSE local
  IN SetAllIfNil(config, <<
       <<"flash.tidb_status_addr", Str(tidbStatusAddr)>>,
       <<"flash.service_addr", Str(listenHost \o ":3930")>>,
       <<"flash.overlap_threshold", Float("0.6")>>,
       <<"flash.compact_log_min_period", Int64("200")>>,
       <<"flash.flash_cluster.cluster_manager_path", Str("/tiflash/flash_cluster_manager")>>,
       <<"flash.flash_cluster.log", Str(defaultClusterLog)>>,
       <<"flash.flash_cluster.refresh_interval", Int64("20")>>,
       <<"flash.flash_cluster.update_rule_interval", Int64("10")>>,
       <<"flash.flash_cluster.master_ttl", Int64("60")>>,
       <<"flash.proxy.addr", Str(listenHost \o ":20170")>>,
       <<"flash.proxy.advertise-addr", Str(TiFlashPodAddr(clusterName, ns, clusterDomain, "20170"))>>,
       <<"flash.proxy.data-dir", Str("/data0/proxy")>>,
       <<"flash.proxy.config", Str("/data0/proxy.toml")>> >>)

setTiFlashFlashConfigDefault(config, ref, clusterName, ns, clusterDomain, listenHost, noLocalTiDB, acrossK8s) ==
  LET local == TiDBMemberName(clusterName) \o "." \o ns \o ".svc:10080"
      tidbStatusAddr ==
        IF noLocalTiDB /\ ~ref.nil
        THEN IF acrossK8s
             THEN TiDBPeerMemberName(ref.Name) \o "." \o ref.Namespace \o ".svc"
                    \o FormatClusterDomain(ref.ClusterDomain) \o ":10080"
             ELSE TiDBMemberName(ref.Name) \o "." \o ref.Namespace \o ".svc"
                    \o FormatClusterDomain(ref.ClusterDomain) \o ":10080"
        ELSE local
  IN SetAllIfNil(config, <<
       <<"flash.tidb_status_addr", Str(tidbStatusAddr)>>,
       <<"flash.service_addr", Str(listenHost \o ":3930")>>,
       <<"flash.overlap_threshold", Float("0.6")>>,
       <<"flash.compact_log_min_period", Int64("200")>>,
       <<"flash.flash_cluster.cluster_manager_path", Str("/tiflash/flash_cluster_manager")>>,
       <<"flash.flash_cluster.log", Str(defaultClusterLog)>>,
       <<"flash.flash_cluster.refresh_interval", Int64("20")>>,
       <<"flash.flash_cluster.update_rule_interval", Int64("10")>>,
       <<"flash.flash_cluster.master_ttl", Int64("60")>>,
       <<"flash.proxy.addr", Str(listenHost \o ":20170")>>,
       <<"flash.proxy.advertise-addr", Str(TiFlashPodAddr(clusterName, ns, clusterDomain, "20170"))>>,
       <<"flash.proxy.data-dir", Str("/data0/proxy")>>,
       <<"flash.proxy.config", Str("/data0/proxy.toml")>> >>)

setTiFlashLoggerConfigDefault(config) ==
  SetAllIfNil(config, <<
    <<"logger.errorlog", Str(defaultErrorLog)>>,
    <<"logger.size", Str("100M")>>,
    <<"logger.log", Str(defaultServerLog)>>,
    <<"logger.level", Str("information")>>,
    <<"logger.count", Int64("10")>> >>)

setTiFlashApplicationConfigDefault(config) ==
  SetIfNil(config, "application.runAsDaemon", Bool("true"))

\* The three placement-service addresses setTiFlashRaftConfigDefault chooses among.
RaftDiscoveryAddr == Str("PD_ADDR")
RaftRefAddr(ref) ==
  Str(PDMemberName(ref.Name) \o "." \o ref.Namespace \o ".svc"
        \o FormatClusterDomain(ref.ClusterDomain) \o ":2379")
RaftLocalAddr(clusterName, ns) ==
  Str(PDMemberName(clusterName) \o "." \o ns \o ".svc:2379")
RaftStorageDefaults(config) ==
  SetAllIfNil(config, <<
    <<"raft.kvstore_path", Str("/data0/kvstore")>>,
    <<"raft.storage_engine", Str("dt")>> >>)

\* Variant of setTiFlashRaftConfigDefault that writes raft.pd_addr with Set.
setTiFlashRaftConfigDefault_overwrite(config, ref, clusterName, ns, clusterDomain, noLocalPD, acrossK8s) ==
  LET c1 == RaftStorageDefaults(config)
  IN IF acrossK8s THEN Set(c1, "raft.pd_addr", RaftDiscoveryAddr)
     ELSE IF ~ref.nil /\ noLocalPD THEN Set(c1, "raft.pd_addr", RaftRefAddr(ref))
     ELSE Set(c1, "raft.pd_addr", RaftLocalAddr(clusterName, ns))

\* Variant of setTiFlashRaftConfigDefault that tests the reference cluster first.
setTiFlashRaftConfigDefault_refFirst(config, ref, clusterName, ns, clusterDomain, noLocalPD, acrossK8s) ==
  LET c1 == RaftStorageDefaults(config)
  IN IF ~ref.nil /\ noLocalPD THEN SetIfNil(c1, "raft.pd_addr", RaftRefAddr(ref))
     ELSE IF acrossK8s THEN SetIfNil(c1, "raft.pd_addr", RaftDiscoveryAddr)
     ELSE SetIfNil(c1, "raft.pd_addr", RaftLocalAddr(clusterName, ns))

\* Variant of setTiFlashRaftConfigDefault that does not test noLocalPD.
setTiFlashRaftConfigDefault_anyRef(config, ref, clusterName, ns, clusterDomain, noLocalPD, acrossK8s) ==
  LET c1 == RaftStorageDefaults(config)
  IN IF acrossK8s THEN SetIfNil(c1, "raft.pd_addr", RaftDiscoveryAddr)
     ELSE IF ~ref.nil THEN SetIfNil(c1, "raft.pd_addr", RaftRefAddr(ref))
     ELSE SetIfNil(c1, "raft.pd_addr", RaftLocalAddr(clusterName, ns))

setTiFlashRaftConfigDefault(config, ref, clusterName, ns, clusterDomain, noLocalPD, acrossK8s) ==
  LET c1 == RaftStorageDefaults(config)
  IN IF acrossK8s THEN SetIfNil(c1, "raft.pd_addr", RaftDiscoveryAddr)
     ELSE IF ~ref.nil /\ noLocalPD THEN SetIfNil(c1, "raft.pd_addr", RaftRefAddr(ref))
     ELSE SetIfNil(c1, "raft.pd_addr", RaftLocalAddr(clusterName, ns))

setTiFlashCommonConfigDefault(config, ref, clusterName, ns, clusterDomain, listenHost, noLocalPD, noLocalTiDB, acrossK8s) ==
  LET c1 == SetAllIfNil(config, <<
              <<"tmp_path", Str("/data0/tmp")>>,
              <<"display_name", Str("TiFlash")>>,
              <<"default_profile", Str("default")>>,
              <<"path", Str("/data0/db")>>,
              <<"path_realtime_mode", Bool("false")>>,
              <<"mark_cache_size", Int64("5368709120")>>,
              <<"minmax_index_cache_size", Int64("5368709120")>>,
              <<"tcp_port", Int64("9000")>>,
              <<"tcp_port_secure", Int64("9000")>>,
              <<"https_port", Int64("8123")>>,
              <<"http_port", Int64("8123")>>,
              <<"interserver_http_port", Int64("9009")>> >>)
      c2 == setTiFlashFlashConfigDefault(c1, ref, clusterName, ns, clusterDomain, listenHost, noLocalTiDB, acrossK8s)
      c3 == setTiFlashLoggerConfigDefault(c2)
      c4 == setTiFlashApplicationConfigDefault(c3)
      c5 == setTiFlashRaftConfigDefault(c4, ref, clusterName, ns, clusterDomain, noLocalPD, acrossK8s)
      c6 == IF listenHost = listenHostForIPv6
            THEN SetIfNil(c5, "listen_host", Str("::"))
            ELSE SetIfNil(c5, "listen_host", Str(listenHost))
  IN SetAllIfNil(c6, <<
       <<"status.metrics_port", Int64("8234")>>,
       <<"quotas.default.interval.duration", Int64("3600")>>,
       <<"quotas.default.interval.queries", Int64("0")>>,
       <<"quotas.default.interval.errors", Int64("0")>>,
       <<"quotas.default.interval.result_rows", Int64("0")>>,
       <<"quotas.default.interval.read_rows", Int64("0")>>,
       <<"quotas.default.interval.execution_time", Int64("0")>>,
       <<"users.readonly.profile", Str("readonly")>>,
       <<"users.readonly.quota", Str("default")>>,
       <<"users.readonly.networks.ip", Str("::/0")>>,
       <<"users.readonly.password", Str("")>>,
       <<"users.default.profile", Str("default")>>,
       <<"users.default.quota", Str("default")>>,
       <<"users.default.networks.ip", Str("::/0")>>,
       <<"users.default.password", Str("")>>,
       <<"profiles.readonly.readonly", Int64("1")>>,
       <<"profiles.default.max_memory_usage", Int64("10000000000")>>,
       <<"profiles.default.load_balancing", Str("random")>>,
       <<"profiles.default.use_uncompressed_cache", Int64("0")>> >>)

setTiFlashConfigDefault(config, ref, clusterName, ns, clusterDomain, listenHost, noLocalPD, noLocalTiDB, acrossK8s) ==
  LET c1 == IF config.Common.nil
            THEN [config EXCEPT !.Common = NewTiFlashCommonConfig] ELSE config
      c2 == [c1 EXCEPT !.Common = setTiFlashCommonConfigDefault(@, ref, clusterName, ns,
                                    clusterDomain, listenHost, noLocalPD, noLocalTiDB, acrossK8s)]
      c3 == IF c2.Proxy.nil
            THEN [c2 EXCEPT !.Proxy = NewTiFlashProxyConfig] ELSE c2
  IN [c3 EXCEPT !.Proxy = setTiFlashProxyConfigDefault(@, clusterName, ns, clusterDomain, listenHost)]

\* getTiFlashConfig, lines 243-249: lazily constructs the missing sections.
getTiFlashConfig_init(config) ==
  LET c1 == IF config.nil THEN NewTiFlashConfig ELSE config
  IN IF c1.Common.nil THEN [c1 EXCEPT !.Common = NewTiFlashCommonConfig] ELSE c1

\* Variant of getTiFlashConfig_defaults with the test of "path" inverted.
getTiFlashConfig_defaults_invertedPath(config, tc) ==
  LET paths == StoragePaths(tc.StorageClaims)
      c1 == IF Get(config.Common, "path") # NIL /\ Len(paths) > 0
            THEN [config EXCEPT !.Common = Set(@, "path", Str(Join(paths, ",")))]
            ELSE config
      listenHost == IF tc.PreferIPv6 THEN listenHostForIPv6 ELSE listenHostForIPv4
  IN setTiFlashConfigDefault(c1, tc.Cluster, tc.Name, tc.Namespace, tc.ClusterDomain,
       listenHost, WithoutLocalPD(tc), WithoutLocalTiDB(tc), AcrossK8s(tc))

\* getTiFlashConfig, lines 251-271: storage path, then every other default.
getTiFlashConfig_defaults(config, tc) ==
  LET paths == StoragePaths(tc.StorageClaims)
      c1 == IF Get(config.Common, "path") = NIL /\ Len(paths) > 0
            THEN [config EXCEPT !.Common = Set(@, "path", Str(Join(paths, ",")))]
            ELSE config
      listenHost == IF tc.PreferIPv6 THEN listenHostForIPv6 ELSE listenHostForIPv4
  IN setTiFlashConfigDefault(c1, tc.Cluster, tc.Name, tc.Namespace, tc.ClusterDomain,
       listenHost, WithoutLocalPD(tc), WithoutLocalTiDB(tc), AcrossK8s(tc))

\* The certificate triple written with Set on the engine and the proxy document.
SetEngineCerts(common) ==
  Set(Set(Set(common,
    "security.ca_path", Str(PathJoin(tiflashCertPath, ServiceAccountRootCAKey))),
    "security.cert_path", Str(PathJoin(tiflashCertPath, TLSCertKey))),
    "security.key_path", Str(PathJoin(tiflashCertPath, TLSPrivateKeyKey)))
SetProxyCerts(proxy) ==
  Set(Set(Set(proxy,
    "security.ca-path", Str(PathJoin(tiflashCertPath, ServiceAccountRootCAKey))),
    "security.cert-path", Str(PathJoin(tiflashCertPath, TLSCertKey))),
    "security.key-path", Str(PathJoin(tiflashCertPath, TLSPrivateKeyKey)))
\* proxy.Set("security.cert-allowed-cn", ...) when only the engine defines it
CopyAllowedCN(common, proxy) ==
  IF Get(common, "security.cert_allowed_cn") # NIL /\ Get(proxy, "security.cert-allowed-cn") = NIL
  THEN Set(proxy, "security.cert-allowed-cn", Get(common, "security.cert_allowed_cn"))
  ELSE proxy

\* Variant of getTiFlashConfig_tls without the cleanup of the secure ports.
getTiFlashConfig_tls_noCleanup(config, tc) ==
  IF IsTLSClusterEnabled(tc)
  THEN LET p1 == SetProxyCerts(config.Proxy)
           e1 == SetEngineCerts(config.Common)
       IN [config EXCEPT !.Common = Del(Del(e1, "http_port"), "tcp_port"),
                         !.Proxy = CopyAllowedCN(e1, p1)]
  ELSE config

\* getTiFlashConfig, lines 274-295: the TLS posture of the finished pair.
getTiFlashConfig_tls(config, tc) ==
  IF IsTLSClusterEnabled(tc)
  THEN LET p1 == SetProxyCerts(config.Proxy)
           e1 == SetEngineCerts(config.Common)
       IN [config EXCEPT !.Common = Del(Del(e1, "http_port"), "tcp_port"),
                         !.Proxy = CopyAllowedCN(e1, p1)]
  ELSE [config EXCEPT !.Common = Del(Del(@, "https_port"), "tcp_port_secure")]

\* ------------------------------------------------------ current dialect

\* getTiFlashConfigV2, lines 121-129: lazily constructs the missing sections.
getTiFlashConfigV2_init(config) ==
  LET c1 == IF config.nil THEN NewTiFlashConfig ELSE config
      c2 == IF c1.Common.nil THEN [c1 EXCEPT !.Common = NewTiFlashCommonConfig] ELSE c1
  IN IF c2.Proxy.nil THEN [c2 EXCEPT !.Proxy = NewTiFlashProxyConfig] ELSE c2

\* Variant of getTiFlashConfigV2_storage that does not look at the legacy keys.
getTiFlashConfigV2_storage_noLegacyCheck(common, paths) ==
  LET c1 == IF Get(common, "storage.main.dir") = NIL
            THEN Set(common, "storage.main.dir", StrList(paths)) ELSE common
  IN SetIfNil(c1, "storage.raft.dir", StrList(<<"/data0/kvstore">>))

\* getTiFlashConfigV2, lines 144-159: the storage directories, unless the
\* document names them or their legacy keys.
getTiFlashConfigV2_storage(common, paths) ==
  LET c1 == IF Get(common, "path") = NIL /\ Get(common, "storage.main.dir") = NIL
            THEN Set(common, "storage.main.dir", StrList(paths)) ELSE common
  IN IF Get(c1, "raft.kvstore_path") = NIL
     THEN SetIfNil(c1, "storage.raft.dir", StrList(<<"/data0/kvstore">>)) ELSE c1

\* getTiFlashConfigV2, lines 143-209: the engine document's defaults.
getTiFlashConfigV2_common(common, tc) ==
  LET name == tc.Name
      ns == tc.Namespace
      ref == tc.Cluster
      listenHost == IF tc.PreferIPv6 THEN listenHostForIPv6 ELSE listenHostForIPv4
      claimed == StoragePaths(tc.StorageClaims)
      paths == IF Len(claimed) = 0 THEN <<"/data0/db">> ELSE claimed
      c2 == getTiFlashConfigV2_storage(common, paths)
      tidbStatusAddr ==
        IF WithoutLocalTiDB(tc) /\ Heterogeneous(tc)
        THEN IF AcrossK8s(tc)
             THEN TiDBPeerMemberName(ref.Name) \o "." \o ref.Namespace \o ".svc"
                    \o FormatClusterDomain(ref.ClusterDomain) \o ":10080"
             ELSE TiDBMemberName(ref.Name) \o "." \o ref.Namespace \o ".svc"
                    \o FormatClusterDomain(ref.ClusterDomain) \o ":10080"
        ELSE TiDBMemberName(name) \o "." \o ns \o ".svc:10080"
      pdAddr ==
        IF AcrossK8s(tc) THEN "PD_ADDR"
        ELSE IF Heterogeneous(tc) /\ WithoutLocalPD(tc)
        THEN PDMemberName(ref.Name) \o "." \o ref.Namespace \o ".svc"
               \o FormatClusterDomain(ref.ClusterDomain) \o ":2379"
        ELSE PDMemberName(name) \o "." \o ns \o ".svc:2379"
      c3 == SetAllIfNil(c2, <<
              <<"tmp_path", Str("/data0/tmp")>>,
              <<"tcp_port", Int64("9000")>>,
              <<"http_port", Int64("8123")>>,
              <<"flash.tidb_status_addr", Str(tidbStatusAddr)>>,
              <<"flash.service_addr", Str(listenHost \o ":3930")>>,
              <<"flash.flash_cluster.log", Str(defaultClusterLog)>>,
              <<"flash.proxy.addr", Str(listenHost \o ":20170")>>,
              <<"flash.proxy.advertise-addr", Str(TiFlashPodAddr(name, ns, tc.ClusterDomain, "20170"))>>,
              <<"flash.proxy.data-dir", Str("/data0/proxy")>>,
              <<"flash.proxy.config", Str("/data0/proxy.toml")>>,
              <<"logger.errorlog", Str(defaultErrorLog)>>,
              <<"logger.log", Str(defaultServerLog)>>,
              <<"raft.pd_addr", Str(pdAddr)>> >>)
  IN IF listenHost = listenHostForIPv6
     THEN SetAllIfNil(c3, <<
            <<"listen_host", Str("::")>>,
            <<"status.metrics_port", Int64("8234")>> >>)
     ELSE c3

\* getTiFlashConfigV2, lines 212-217: the proxy document's defaults.
getTiFlashConfigV2_proxy(proxy, tc) ==
  LET listenHost == IF tc.PreferIPv6 THEN listenHostForIPv6 ELSE listenHostForIPv4
  IN SetAllIfNil(proxy, <<
       <<"log-level", Str("info")>>,
       <<"server.engine-addr", Str(TiFlashPodAddr(tc.Name, tc.Namespace, tc.ClusterDomain, "3930"))>>,
       <<"server.status-addr", Str(listenHost \o ":20292")>>,
       <<"server.advertise-status-addr", Str(TiFlashPodAddr(tc.Name, tc.Namespace, tc.ClusterDomain, "20292"))>> >>)

\* getTiFlashConfigV2, lines 143-217
getTiFlashConfigV2_defaults(config, tc) ==
  [config EXCEPT !.Common = getTiFlashConfigV2_common(@, tc),
                 !.Proxy = getTiFlashConfigV2_proxy(@, tc)]

\* Variant of getTiFlashConfigV2_tls that copies the engine's allowed client
\* name over a proxy value that is already there.
getTiFlashConfigV2_tls_alwaysCopyCN(config, tc) ==
  IF IsTLSClusterEnabled(tc)
  THEN LET e1 == SetEngineCerts(config.Common)
           e2 == SetAllIfNil(e1, <<
                   <<"tcp_port_secure", Int64("9000")>>,
                   <<"https_port", Int64("8123")>> >>)
           e3 == Del(Del(e2, "http_port"), "tcp_port")
           p1 == SetProxyCerts(config.Proxy)
       IN [config EXCEPT !.Common = e3,
             !.Proxy = IF Get(e3, "security.cert_allowed_cn") # NIL
                       THEN Set(p1, "security.cert-allowed-cn", Get(e3, "security.cert_allowed_cn"))
                       ELSE p1]
  ELSE config

\* Variant of getTiFlashConfigV2_tls that removes the secure ports without TLS,
\* as the legacy dialect does.
getTiFlashConfigV2_tls_withCleanup(config, tc) ==
  IF IsTLSClusterEnabled(tc)
  THEN LET e1 == SetEngineCerts(config.Common)
           e2 == SetAllIfNil(e1, <<
                   <<"tcp_port_secure", Int64("9000")>>,
                   <<"https_port", Int64("8123")>> >>)
           e3 == Del(Del(e2, "http_port"), "tcp_port")
           p1 == SetProxyCerts(config.Proxy)
       IN [config EXCEPT !.Common = e3, !.Proxy = CopyAllowedCN(e3, p1)]
  ELSE [config EXCEPT !.Common = Del(Del(@, "https_port"), "tcp_port_secure")]

\* getTiFlashConfigV2, lines 220-236: the TLS posture of the finished pair.
getTiFlashConfigV2_tls(config, tc) ==
  IF IsTLSClusterEnabled(tc)
  THEN LET e1 == SetEngineCerts(config.Common)
           e2 == SetAllIfNil(e1, <<
                   <<"tcp_port_secure", Int64("9000")>>,
                   <<"https_port", Int64("8123")>> >>)
           e3 == Del(Del(e2, "http_port"), "tcp_port")
           p1 == SetProxyCerts(config.Proxy)
       IN [config EXCEPT !.Common = e3, !.Proxy = CopyAllowedCN(e3, p1)]
  ELSE config

\* ------------------------------------------------------ log-tailer sidecars

\* Value.AsString(): the string a value holds, or a type mismatch.
AsString(v) ==
  IF v # NIL /\ v[1] = "str" THEN [err |-> FALSE, s |-> v[2]]
  ELSE [err |-> TRUE, s |-> ""]

\* buildSidecarContainer: the container's name and the file it tails.
buildSidecarContainer(name, path) ==
  [Name |-> name, Command |-> "touch " \o path \o "; tail -n0 -F " \o path \o ";"]

\* buildTiFlashSidecarContainers, lines 52-72, on the copied document:
\* [config |-> the document after defaulting, containers, err]
buildTiFlashSidecarContainers_body(copied) ==
  LET c0 == IF copied.nil THEN NewTiFlashConfig ELSE copied
      config == setTiFlashLogConfigDefault(c0)
      p1 == AsString(Get(config.Common, "logger.log"))
      p2 == AsString(Get(config.Common, "logger.errorlog"))
      p3 == AsString(Get(config.Common, "flash.flash_cluster.log"))
  IN IF p1.err \/ p2.err \/ p3.err
     THEN [config |-> config, containers |-> <<>>, err |-> TRUE]
     ELSE [config |-> config,
           containers |-> << buildSidecarContainer("serverlog", p1.s),
                             buildSidecarContainer("errorlog", p2.s),
                             buildSidecarContainer("clusterlog", p3.s) >>,
           err |-> FALSE]

\* ------------------------------------------------------------ the inputs

Workers == {"w1", "w2"}
SpecAddr == "spec"
Addr == {SpecAddr} \cup Workers

\* "5.4.0", "5.3.9", "v6.0.1" and the tag of an untagged image
Versions ==
  { <<"5", ".", "4", ".", "0">>,
    <<"5", ".", "3", ".", "9">>,
    <<"v", "6", ".", "0", ".", "1">>,
    <<"l", "a", "t", "e", "s", "t">> }

RefCluster ==
  [nil |-> FALSE, Name |-> "ref", Namespace |-> "refns", ClusterDomain |-> "ref.local"]

Topologies ==
  [ Name : {"basic"}, Namespace : {"ns"}, ClusterDomain : {"", "cluster.local"},
    Version : Versions, PreferIPv6 : BOOLEAN, TLS : BOOLEAN,
    StorageClaims : 0..MaxStorageClaims, Cluster : {NoRef, RefCluster},
    AcrossK8s : BOOLEAN, PD : BOOLEAN, TiDB : BOOLEAN ]

PlainPortKeys == {"tcp_port", "http_port"}
SecurePortKeys == {"tcp_port_secure", "https_port"}
EngineCertKeys == {"security.ca_path", "security.cert_path", "security.key_path"}
ProxyCertKeys == {"security.ca-path", "security.cert-path", "security.key-path"}
StorageKeys == {"path", "storage.main.dir", "raft.kvstore_path", "storage.raft.dir"}
AddressKeys ==
  {"raft.pd_addr", "flash.tidb_status_addr", "flash.service_addr", "flash.proxy.addr",
   "flash.proxy.advertise-addr", "listen_host"}
LoggerKeys ==
  {"logger.log", "logger.errorlog", "logger.size", "logger.level", "logger.count",
   "flash.flash_cluster.log"}

\* Every engine key either dialect writes, plus the allowed-client-name key.
EngineKeys ==
  PlainPortKeys \cup SecurePortKeys \cup EngineCertKeys \cup StorageKeys
    \cup AddressKeys \cup LoggerKeys \cup
  {"security.cert_allowed_cn", "tmp_path", "display_name", "default_profile",
   "path_realtime_mode", "mark_cache_size", "minmax_index_cache_size",
   "interserver_http_port", "flash.overlap_threshold", "flash.compact_log_min_period",
   "flash.flash_cluster.cluster_manager_path", "flash.flash_cluster.refresh_interval",
   "flash.flash_cluster.update_rule_interval", "flash.flash_cluster.master_ttl",
   "flash.proxy.data-dir", "flash.proxy.config", "application.runAsDaemon",
   "raft.storage_engine", "status.metrics_port",
   "quotas.default.interval.duration", "quotas.default.interval.queries",
   "quotas.default.interval.errors", "quotas.default.interval.result_rows",
   "quotas.default.interval.read_rows", "quotas.default.interval.execution_time",
   "users.readonly.profile", "users.readonly.quota", "users.readonly.networks.ip",
   "users.readonly.password", "users.default.profile", "users.default.quota",
   "users.default.networks.ip", "users.default.password", "profiles.readonly.readonly",
   "profiles.default.max_memory_usage", "profiles.default.load_balancing",
   "profiles.default.use_uncompressed_cache"}

ProxyKeys ==
  ProxyCertKeys \cup
  {"security.cert-allowed-cn", "log-level", "server.engine-addr", "server.status-addr",
   "server.advertise-status-addr"}

\* The value a user document holds at key k: never the default of k.
UserValue(k) ==
  IF k \in PlainPortKeys \cup SecurePortKeys THEN Int64("19000")
  ELSE IF k = "storage.main.dir" \/ k = "storage.raft.dir" THEN StrList(<<"/user/" \o k>>)
  ELSE Str("user:" \o k)

UserDoc(keys) == [nil |-> FALSE, MP |-> [k \in keys |-> UserValue(k)]]

\* <<engine keys, proxy keys>> a partial input presets
PresetChoices ==
  { <<{}, {}>>, <<EngineKeys, ProxyKeys>>,
    <<{"path"}, {}>>, <<{"storage.main.dir"}, {}>>,
    <<{"raft.kvstore_path"}, {}>>, <<{"storage.raft.dir"}, {}>>,
    <<{"security.cert_allowed_cn"}, {}>>, <<{}, {"security.cert-allowed-cn"}>>,
    <<{"security.cert_allowed_cn"}, {"security.cert-allowed-cn"}>>,
    <<PlainPortKeys, {}>>, <<SecurePortKeys, {}>>,
    <<EngineCertKeys, ProxyCertKeys>>,
    <<{"raft.pd_addr", "flash.tidb_status_addr"}, {}>> }

\* tc.Spec.TiFlash.Config: absent, present with absent sections, or presets
PartialInputs ==
  {NilConfig, NewTiFlashConfig} \cup
  { [nil |-> FALSE, Common |-> UserDoc(c[1]), Proxy |-> UserDoc(c[2])] : c \in PresetChoices }

\* ------------------------------------------------------------- the state

VARIABLES
  tc,        \* the TidbCluster's topology facts
  mem,       \* the documents: mem[SpecAddr] is tc.Spec.TiFlash.Config, mem[w] worker w's own
  active,    \* the reconcile workers that run
  pc,        \* each worker's position
  op,        \* the function each worker runs: "legacy", "v2", "sidecar" or "none"
  cfg,       \* each worker's local pointer `config`
  entry,     \* the caller's document when each worker's call began
  ret,       \* each worker's returned value
  first,     \* the first document pair GetTiFlashConfig returned
  resubmits, \* times the caller stored a returned pair as the partial input
  queue,     \* the restore controller's rate-limiting work queue (c.queue)
  rworker,   \* each restore worker's position in processNextWorkItem
  started    \* the number of workers Run started, 0 before Run

vars == <<tc, mem, active, pc, op, cfg, entry, ret, first, resubmits, queue, rworker, started>>

\* ------------------------------------------- restore controller work queue
\* workqueue.RateLimitingInterface: items waits for Get, dirty holds the keys
\* that need processing, processing the keys between Get and Done, waiting the
\* keys AddAfter holds back, failures the limiter's count per key.

RestoreKeys == 1..NumRestores
RestoreWorkers == 1..MaxRestoreWorkers
NoKey == 0

NewNamedRateLimitingQueue ==
  [items |-> <<>>, dirty |-> {}, processing |-> {}, shuttingDown |-> FALSE,
   waiting |-> {}, failures |-> [k \in RestoreKeys |-> 0]]

QueueAdd(q, k) ==
  IF q.shuttingDown \/ k \in q.dirty THEN q
  ELSE IF k \in q.processing THEN [q EXCEPT !.dirty = @ \cup {k}]
  ELSE [q EXCEPT !.dirty = @ \cup {k}, !.items = Append(@, k)]

\* Get on a queue that holds an item
QueueGet(q) ==
  [q EXCEPT !.items = Tail(@), !.processing = @ \cup {Head(q.items)},
            !.dirty = @ \ {Head(q.items)}]

QueueDone(q, k) ==
  IF k \in q.dirty
  THEN [q EXCEPT !.processing = @ \ {k}, !.items = Append(@, k)]
  ELSE [q EXCEPT !.processing = @ \ {k}]

\* AddAfter(item, rateLimiter.When(item)): the limiter counts, the key waits
QueueAddRateLimited(q, k) ==
  LET q1 == [q EXCEPT !.failures[k] = @ + 1]
  IN IF q.shuttingDown THEN q1 ELSE [q1 EXCEPT !.waiting = @ \cup {k}]

QueueForget(q, k) == [q EXCEPT !.failures[k] = 0]

QueueShutDown(q) == [q EXCEPT !.shuttingDown = TRUE]

\* A worker outside processNextWorkItem's critical part, with no item yet.
IdleWorker ==
  [pc |-> "off", key |-> NoKey, err |-> "none", dones |-> 0, did |-> "none",
   failuresAtGet |-> 0]

RestoreInit ==
  /\ queue = NewNamedRateLimitingQueue
  /\ rworker = [w \in RestoreWorkers |-> IdleWorker]
  /\ started = 0

NoRet == [addr |-> "none", containers |-> <<>>, err |-> FALSE]

InitWith(ws, topologies, inputs) ==
  /\ tc \in topologies
  /\ \E in \in inputs : mem = [a \in Addr |-> IF a = SpecAddr THEN in ELSE NilConfig]
  /\ active = ws
  /\ pc = [w \in Workers |-> "idle"]
  /\ op = [w \in Workers |-> "none"]
  /\ cfg = [w \in Workers |-> w]
  /\ entry = [w \in Workers |-> NilConfig]
  /\ ret = [w \in Workers |-> NoRet]
  /\ first = [set |-> FALSE, val |-> NilConfig]
  /\ resubmits = 0
  /\ RestoreInit

Init == InitWith({"w1"}, Topologies, PartialInputs)

\* Variant of tcConfigDeepCopy that keeps the caller's pointer.
tcConfigDeepCopy_alias(m, w) ==
  [mem |-> m, addr |-> IF m[SpecAddr].nil THEN w ELSE SpecAddr]

\* config := tc.Spec.TiFlash.Config.DeepCopy(): worker w's own object, or nil
tcConfigDeepCopy(m, w) ==
  [mem |-> [m EXCEPT ![w] = m[SpecAddr]], addr |-> w]

\* Variant of GetTiFlashConfig_dialect that takes a failed check for success.
GetTiFlashConfig_dialect_errIsOk(t) ==
  LET c == tiflashEqualOrGreaterThanV540(TiFlashVersion(t))
  IN IF c.err \/ c.ok THEN "v2" ELSE "legacy"

\* GetTiFlashConfig, lines 112-116: the dialect the version selects
GetTiFlashConfig_dialect(t) ==
  LET c == tiflashEqualOrGreaterThanV540(TiFlashVersion(t))
  IN IF ~c.err /\ c.ok THEN "v2" ELSE "legacy"

Begin(w, o) ==
  /\ w \in active
  /\ pc[w] \in {"idle", "done"}
  /\ pc' = [pc EXCEPT ![w] = o]
  /\ op' = [op EXCEPT ![w] = o]
  /\ entry' = [entry EXCEPT ![w] = mem[SpecAddr]]
  /\ mem' = [mem EXCEPT ![w] = NilConfig]
  /\ cfg' = [cfg EXCEPT ![w] = w]
  /\ ret' = [ret EXCEPT ![w] = NoRet]
  /\ UNCHANGED <<queue, rworker, started, tc, active, first, resubmits>>

\* A worker calls GetTiFlashConfig(tc).
GetTiFlashConfig(w) == Begin(w, GetTiFlashConfig_dialect(tc))

\* A worker calls buildTiFlashSidecarContainers(tc).
buildTiFlashSidecarContainers(w) == Begin(w, "sidecar")

\* Lines 44, 120-129, 242-249: copy the caller's document, fill absent sections.
CopyConfig(w) ==
  /\ w \in active
  /\ pc[w] \in {"legacy", "v2", "sidecar"}
  /\ LET d == tcConfigDeepCopy(mem, w)
     IN /\ cfg' = [cfg EXCEPT ![w] = d.addr]
        /\ mem' = [d.mem EXCEPT ![d.addr] =
                     IF pc[w] = "v2" THEN getTiFlashConfigV2_init(@)
                     ELSE IF pc[w] = "legacy" THEN getTiFlashConfig_init(@)
                     ELSE @]
  /\ pc' = [pc EXCEPT ![w] = pc[w] \o "_copied"]
  /\ UNCHANGED <<queue, rworker, started, tc, active, op, entry, ret, first, resubmits>>

\* Lines 143-217 and 251-271: populate the defaults of the worker's dialect.
SetDefaults(w) ==
  /\ w \in active
  /\ pc[w] \in {"legacy_copied", "v2_copied"}
  /\ mem' = [mem EXCEPT ![cfg[w]] =
               IF op[w] = "v2" THEN getTiFlashConfigV2_defaults(@, tc)
               ELSE getTiFlashConfig_defaults(@, tc)]
  /\ pc' = [pc EXCEPT ![w] = op[w] \o "_defaulted"]
  /\ UNCHANGED <<queue, rworker, started, tc, active, op, cfg, entry, ret, first, resubmits>>

\* Lines 220-238 and 274-297: apply the TLS posture and return the document.
ApplyTLS(w) ==
  /\ w \in active
  /\ pc[w] \in {"legacy_defaulted", "v2_defaulted"}
  /\ mem' = [mem EXCEPT ![cfg[w]] =
               IF op[w] = "v2" THEN getTiFlashConfigV2_tls(@, tc)
               ELSE getTiFlashConfig_tls(@, tc)]
  /\ pc' = [pc EXCEPT ![w] = "done"]
  /\ ret' = [ret EXCEPT ![w] = [addr |-> cfg[w], containers |-> <<>>, err |-> FALSE]]
  /\ first' = IF first.set THEN first ELSE [set |-> TRUE, val |-> mem'[cfg[w]]]
  /\ UNCHANGED <<queue, rworker, started, tc, active, op, cfg, entry, resubmits>>

\* buildTiFlashSidecarContainers, lines 52-72.
BuildSidecars(w) ==
  /\ w \in active
  /\ pc[w] = "sidecar_copied"
  /\ LET r == buildTiFlashSidecarContainers_body(mem[cfg[w]])
     IN /\ mem' = [mem EXCEPT ![cfg[w]] = r.config]
        /\ ret' = [ret EXCEPT ![w] = [addr |-> "none", containers |-> r.containers, err |-> r.err]]
  /\ pc' = [pc EXCEPT ![w] = "done"]
  /\ UNCHANGED <<queue, rworker, started, tc, active, op, cfg, entry, first, resubmits>>

\* The caller stores a returned document pair as the cluster's partial input
\* and starts over (the external change detection keeps the first pair).
Resubmit ==
  /\ resubmits < MaxResubmit
  /\ \A w \in active : pc[w] \in {"idle", "done"}
  /\ \E w \in active :
       /\ pc[w] = "done" /\ op[w] \in {"legacy", "v2"}
       /\ mem' = [a \in Addr |-> IF a = SpecAddr THEN mem[ret[w].addr] ELSE NilConfig]
  /\ resubmits' = resubmits + 1
  /\ pc' = [w \in Workers |-> "idle"]
  /\ op' = [w \in Workers |-> "none"]
  /\ cfg' = [w \in Workers |-> w]
  /\ entry' = [w \in Workers |-> NilConfig]
  /\ ret' = [w \in Workers |-> NoRet]
  /\ UNCHANGED <<queue, rworker, started, tc, active, first>>

Next ==
  \/ \E w \in Workers : GetTiFlashConfig(w)
  \/ \E w \in Workers : buildTiFlashSidecarContainers(w)
  \/ \E w \in Workers : CopyConfig(w)
  \/ \E w \in Workers : SetDefaults(w)
  \/ \E w \in Workers : ApplyTLS(w)
  \/ \E w \in Workers : BuildSidecars(w)
  \/ Resubmit

Spec == Init /\ [][Next]_vars

\* Two reconcile workers over one cluster object.
ConcTopologies ==
  { t \in Topologies :
      /\ t.ClusterDomain = "" /\ ~t.PreferIPv6 /\ t.StorageClaims = 1
      /\ t.Cluster = NoRef /\ ~t.AcrossK8s /\ t.PD /\ t.TiDB
      /\ t.Version \in { <<"5", ".", "4", ".", "0">>, <<"5", ".", "3", ".", "9">> } }

ConcInputs ==
  { NilConfig,
    [nil |-> FALSE, Common |-> UserDoc(EngineKeys), Proxy |-> UserDoc(ProxyKeys)],
    [nil |-> FALSE, Common |-> UserDoc(SecurePortKeys), Proxy |-> UserDoc({})] }

InitConc == InitWith(Workers, ConcTopologies, ConcInputs)

SpecConc == InitConc /\ [][Next]_vars

\* ------------------------------------------------------------ properties

\* Worker w has returned from GetTiFlashConfig.
Returned(w) == w \in active /\ pc[w] = "done" /\ op[w] \in {"legacy", "v2"}
\* The document pair it returned, and the partial input its call began with.
Out(w) == mem[ret[w].addr]
In(w) == entry[w]
Has(doc, k) == k \in DOMAIN doc.MP

CertTriple ==
  << Str("/var/lib/tiflash-tls/ca.crt"), Str("/var/lib/tiflash-tls/tls.crt"),
     Str("/var/lib/tiflash-tls/tls.key") >>

\* The keys synthesis does not write with SetIfNil in worker w's call: the
\* certificate paths and plaintext ports under TLS, and the secure ports of the
\* legacy dialect without TLS.
EngineRewritten(w) ==
  IF tc.TLS THEN EngineCertKeys \cup PlainPortKeys
  ELSE IF op[w] = "legacy" THEN SecurePortKeys ELSE {}
ProxyRewritten(w) == IF tc.TLS THEN ProxyCertKeys ELSE {}

Preserved(w, engineKeys, proxyKeys) ==
  /\ \A k \in engineKeys \cap DOMAIN In(w).Common.MP :
       Get(Out(w).Common, k) = In(w).Common.MP[k]
  /\ \A k \in proxyKeys \cap DOMAIN In(w).Proxy.MP :
       Get(Out(w).Proxy, k) = In(w).Proxy.MP[k]

\* C1 as stated: every key with a default that the partial input sets (the
\* ports, the storage keys, the address and logger keys and the security.*
\* path keys among them) has its input value in the output.
C1_EveryDefaultKeyPreserved ==
  \A w \in Workers : Returned(w) =>
    Preserved(w, EngineKeys \ {"security.cert_allowed_cn"},
                 ProxyKeys \ {"security.cert-allowed-cn"})

\* C1 amended: every key the partial input sets has its input value in the
\* output, except the security.* path keys and tcp_port/http_port when TLS is
\* enabled, and tcp_port_secure/https_port in the legacy dialect when TLS is
\* disabled.
C1_SetIfNilKeysPreserved ==
  \A w \in Workers : Returned(w) =>
    Preserved(w, EngineKeys \ EngineRewritten(w), ProxyKeys \ ProxyRewritten(w))

C1_Witness ==
  \E w \in Workers :
    /\ Returned(w) /\ tc.TLS /\ tc.AcrossK8s /\ resubmits = 0
    /\ Has(In(w).Common, "raft.pd_addr") /\ Has(In(w).Common, "tcp_port_secure")
    /\ Get(Out(w).Common, "raft.pd_addr") = Str("user:raft.pd_addr")
    /\ Get(Out(w).Common, "tcp_port_secure") = Int64("19000")

\* C2 idempotence: every call of GetTiFlashConfig on a fixed topology returns
\* the pair the first call returned, both when it is repeated on the same
\* partial input and when the returned pair has become the partial input.
C2_Idempotent ==
  \A w \in Workers : Returned(w) /\ first.set => Out(w) = first.val

C2_Witness ==
  \E w \in Workers :
    /\ Returned(w) /\ resubmits = 1 /\ tc.TLS /\ tc.StorageClaims = 2
    /\ In(w) = first.val /\ Out(w) = first.val
    /\ ~Has(Out(w).Common, "tcp_port")

V540 == <<"5", ".", "4", ".", "0">>
V539 == <<"5", ".", "3", ".", "9">>
\* The dialect each version string of the model is meant to select.
ExpectedDialect(v) ==
  IF v = V540 \/ v = <<"v", "6", ".", "0", ".", "1">> THEN "v2" ELSE "legacy"

\* C3 dialect boundary: a call runs the current dialect exactly when the
\* version check succeeds without error and answers true; "5.4.0" selects the
\* current dialect, "5.3.9" and an unparsable version the legacy one, whatever
\* the other topology facts and the partial input are.
C3_DialectBoundary ==
  \A w \in Workers : w \in active /\ op[w] \in {"legacy", "v2"} =>
    /\ op[w] = ExpectedDialect(tc.Version)
    /\ (op[w] = "v2") <=>
         (~tiflashEqualOrGreaterThanV540(tc.Version).err
            /\ tiflashEqualOrGreaterThanV540(tc.Version).ok)
    /\ (tiflashEqualOrGreaterThanV540(tc.Version).err => op[w] = "legacy")

C3_Witness ==
  \E w \in Workers :
    /\ Returned(w) /\ op[w] = "legacy"
    /\ tiflashEqualOrGreaterThanV540(tc.Version).err
    /\ tc.TLS /\ tc.AcrossK8s /\ Has(In(w).Common, "path")

\* C4 port disjointness of the legacy dialect: with TLS the engine document
\* holds tcp_port_secure and https_port and neither tcp_port nor http_port,
\* without TLS it holds tcp_port and http_port and neither secure port.
C4_LegacyPortsDisjoint ==
  \A w \in Workers : Returned(w) /\ op[w] = "legacy" =>
    LET present == (PlainPortKeys \cup SecurePortKeys) \cap DOMAIN Out(w).Common.MP
    IN present = IF tc.TLS THEN SecurePortKeys ELSE PlainPortKeys

C4_Witness ==
  \E w \in Workers :
    /\ Returned(w) /\ op[w] = "legacy" /\ ~tc.TLS
    /\ Has(In(w).Common, "tcp_port_secure") /\ Has(In(w).Common, "https_port")
    /\ ~Has(Out(w).Common, "tcp_port_secure") /\ Has(Out(w).Common, "tcp_port")

\* C5 TLS certificate propagation: with TLS both documents hold the fixed
\* certificate triple whatever the input held there; the proxy's allowed
\* client name is the engine's when only the engine input defines it, a proxy
\* value of the input stays, and the engine's value is never taken from the
\* proxy.
C5_TLSCertificates ==
  \A w \in Workers : Returned(w) /\ tc.TLS =>
    LET e == Out(w).Common
        x == Out(w).Proxy
        ie == In(w).Common
        ix == In(w).Proxy
    IN /\ <<Get(e, "security.ca_path"), Get(e, "security.cert_path"),
            Get(e, "security.key_path")>> = CertTriple
       /\ <<Get(x, "security.ca-path"), Get(x, "security.cert-path"),
            Get(x, "security.key-path")>> = CertTriple
       /\ Get(e, "security.cert_allowed_cn") = Get(ie, "security.cert_allowed_cn")
       /\ Get(x, "security.cert-allowed-cn") =
            IF Has(ix, "security.cert-allowed-cn") THEN Get(ix, "security.cert-allowed-cn")
            ELSE Get(ie, "security.cert_allowed_cn")

C5_Witness ==
  \E w \in Workers :
    /\ Returned(w) /\ tc.TLS /\ op[w] = "v2" /\ resubmits = 0
    /\ Has(In(w).Common, "security.cert_allowed_cn")
    /\ ~Has(In(w).Proxy, "security.cert-allowed-cn")
    /\ Get(Out(w).Proxy, "security.cert-allowed-cn") = Str("user:security.cert_allowed_cn")

\* "/data0/db,...,/data(n-1)/db", and "/data0/db" for n = 0
RECURSIVE ExpectedJoinedPaths(_)
ExpectedJoinedPaths(n) ==
  IF n <= 1 THEN "/data0/db"
  ELSE ExpectedJoinedPaths(n - 1) \o ",/data" \o ToString(n - 1) \o "/db"
RECURSIVE ExpectedPathList(_)
ExpectedPathList(n) ==
  IF n <= 1 THEN <<"/data0/db">>
  ELSE Append(ExpectedPathList(n - 1), "/data" \o ToString(n - 1) \o "/db")

\* C6 storage path defaults: when the partial input sets no storage key and n
\* volumes are declared, the legacy dialect returns path as the comma-joined
\* "/data0/db,...,/data(n-1)/db" and the current dialect storage.main.dir as
\* that list; with n = 0 both name the single volume /data0/db.
C6_StoragePathDefaults ==
  \A w \in Workers :
    Returned(w) /\ StorageKeys \cap DOMAIN In(w).Common.MP = {} =>
      IF op[w] = "legacy"
      THEN Get(Out(w).Common, "path") = Str(ExpectedJoinedPaths(tc.StorageClaims))
      ELSE Get(Out(w).Common, "storage.main.dir")
             = <<"list">> \o ExpectedPathList(tc.StorageClaims)

C6_Witness ==
  \E w \in Workers :
    /\ Returned(w) /\ op[w] = "legacy" /\ tc.StorageClaims = 2
    /\ StorageKeys \cap DOMAIN In(w).Common.MP = {}
    /\ Get(Out(w).Common, "path") = Str("/data0/db,/data1/db")

\* C7 cross-cluster placement address: across Kubernetes clusters, a partial
\* input without raft.pd_addr gets the discovery sentinel "PD_ADDR", whatever
\* the reference cluster and the local placement service are.
C7_AcrossK8sPDAddr ==
  \A w \in Workers :
    Returned(w) /\ tc.AcrossK8s /\ ~Has(In(w).Common, "raft.pd_addr") =>
      Get(Out(w).Common, "raft.pd_addr") = Str("PD_ADDR")

C7_Witness ==
  \E w \in Workers :
    /\ Returned(w) /\ tc.AcrossK8s /\ ~tc.Cluster.nil /\ ~tc.PD
    /\ ~Has(In(w).Common, "raft.pd_addr")
    /\ Get(Out(w).Common, "raft.pd_addr") = Str("PD_ADDR")

SequentialGetTiFlashConfig(t, in) ==
  IF GetTiFlashConfig_dialect(t) = "v2"
  THEN getTiFlashConfigV2_tls(getTiFlashConfigV2_defaults(getTiFlashConfigV2_init(in), t), t)
  ELSE getTiFlashConfig_tls(getTiFlashConfig_defaults(getTiFlashConfig_init(in), t), t)

\* C9 the caller's document is never mutated: during and after every call of
\* GetTiFlashConfig or buildTiFlashSidecarContainers the cluster's partial
\* documents are what they were when the call began, the returned document is
\* an object of its own, and concurrent calls return what they return when
\* run one after another.
C9_CallerDocumentUntouched ==
  \A w \in Workers : w \in active /\ pc[w] # "idle" =>
    /\ mem[SpecAddr] = entry[w]
    /\ cfg[w] # SpecAddr
    /\ Returned(w) =>
         /\ ret[w].addr = w
         /\ Out(w) = SequentialGetTiFlashConfig(tc, entry[w])
    /\ pc[w] = "done" /\ op[w] = "sidecar" =>
         ret[w].containers = buildTiFlashSidecarContainers_body(entry[w]).containers

C9_Witness ==
  /\ active = Workers
  /\ Returned("w1") /\ pc["w2"] = "done" /\ op["w2"] = "sidecar"
  /\ ~mem[SpecAddr].nil /\ mem[SpecAddr] # Out("w1")
  /\ Len(ret["w2"].containers) = 3

C11_LegacyKeyExcludesHierarchical ==
  \A w \in Workers : Returned(w) /\ op[w] = "v2" =>
    LET i == In(w).Common
        o == Out(w).Common
    IN /\ Has(o, "storage.main.dir") /\ ~Has(i, "storage.main.dir") => ~Has(i, "path")
       /\ Has(o, "storage.raft.dir") /\ ~Has(i, "storage.raft.dir") => ~Has(i, "raft.kvstore_path")
       /\ Has(i, "path") => Get(o, "path") = Get(i, "path") /\ ~Has(o, "storage.main.dir")
       /\ Has(i, "raft.kvstore_path") =>
            Get(o, "raft.kvstore_path") = Get(i, "raft.kvstore_path") /\ ~Has(o, "storage.raft.dir")

\* C11 amended: the current dialect writes storage.main.dir (storage.raft.dir)
\* only when the partial input defines neither it nor path (raft.kvstore_path);
\* an input that defines the legacy key keeps it, and the output then holds
\* the hierarchical key exactly when the input held it, with the input value.
C11_StorageCompatibility ==
  \A w \in Workers : Returned(w) /\ op[w] = "v2" =>
    LET i == In(w).Common
        o == Out(w).Common
    IN /\ Has(o, "storage.main.dir") /\ ~Has(i, "storage.main.dir") => ~Has(i, "path")
       /\ Has(o, "storage.raft.dir") /\ ~Has(i, "storage.raft.dir") => ~Has(i, "raft.kvstore_path")
       /\ Has(i, "path") =>
            /\ Get(o, "path") = Get(i, "path")
            /\ Get(o, "storage.main.dir") = Get(i, "storage.main.dir")
       /\ Has(i, "raft.kvstore_path") =>
            /\ Get(o, "raft.kvstore_path") = Get(i, "raft.kvstore_path")
            /\ Get(o, "storage.raft.dir") = Get(i, "storage.raft.dir")

C11_Witness ==
  \E w \in Workers :
    /\ Returned(w) /\ op[w] = "v2" /\ resubmits = 0
    /\ DOMAIN In(w).Common.MP = {"path"}
    /\ Get(Out(w).Common, "path") = Str("user:path")
    /\ ~Has(Out(w).Common, "storage.main.dir")
    /\ Has(Out(w).Common, "storage.raft.dir")

\* C12 TLS asymmetry of the current dialect: with TLS the engine document holds
\* tcp_port_secure and https_port and neither tcp_port nor http_port; without
\* TLS it holds tcp_port and http_port, and each secure port exactly when the
\* partial input held it, with the input value.
C12_CurrentDialectPorts ==
  \A w \in Workers : Returned(w) /\ op[w] = "v2" =>
    LET i == In(w).Common
        o == Out(w).Common
    IN IF tc.TLS
       THEN (PlainPortKeys \cup SecurePortKeys) \cap DOMAIN o.MP = SecurePortKeys
       ELSE /\ PlainPortKeys \subseteq DOMAIN o.MP
            /\ \A k \in SecurePortKeys : Get(o, k) = Get(i, k)

C12_Witness ==
  \E w \in Workers :
    /\ Returned(w) /\ op[w] = "v2" /\ ~tc.TLS
    /\ DOMAIN In(w).Common.MP = SecurePortKeys
    /\ Get(Out(w).Common, "tcp_port_secure") = Int64("19000")
    /\ Get(Out(w).Common, "tcp_port") = Int64("9000")

\* The two synthesizers as functions of the topology and the partial input.
getTiFlashConfig_whole(t, in) ==
  getTiFlashConfig_tls(getTiFlashConfig_defaults(getTiFlashConfig_init(in), t), t)
getTiFlashConfigV2_whole(t, in) ==
  getTiFlashConfigV2_tls(getTiFlashConfigV2_defaults(getTiFlashConfigV2_init(in), t), t)

\* What the dialect worker w did not run returns on w's topology and input.
OtherDialectOut(w) ==
  IF op[w] = "v2" THEN getTiFlashConfig_whole(tc, In(w))
  ELSE getTiFlashConfigV2_whole(tc, In(w))

EmptyInput(w) == DOMAIN In(w).Common.MP = {} /\ DOMAIN In(w).Proxy.MP = {}

ProxyAddressKeys ==
  {"server.engine-addr", "server.status-addr", "server.advertise-status-addr"}

\* The engine keys both dialects agree on: with an IPv4 listen host the legacy
\* dialect alone writes listen_host, and it alone writes the logger's size,
\* level and count.
AgreedEngineKeys(t) ==
  ((AddressKeys \cup LoggerKeys) \ {"logger.size", "logger.level", "logger.count"})
    \ (IF t.PreferIPv6 THEN {} ELSE {"listen_host"})

Agree(w, engineKeys, proxyKeys) ==
  /\ \A k \in engineKeys : Get(Out(w).Common, k) = Get(OtherDialectOut(w).Common, k)
  /\ \A k \in proxyKeys : Get(Out(w).Proxy, k) = Get(OtherDialectOut(w).Proxy, k)

IPv6Hosts(w) ==
  tc.PreferIPv6 =>
    /\ Get(Out(w).Common, "flash.service_addr") = Str("[::]:3930")
    /\ Get(Out(w).Common, "flash.proxy.addr") = Str("[::]:20170")
    /\ Get(Out(w).Proxy, "server.status-addr") = Str("[::]:20292")
    /\ Get(Out(w).Common, "listen_host") = Str("::")

TiFlashVars == <<tc, mem, active, pc, op, cfg, entry, ret, first, resubmits>>

\* What sync can return, as processNextWorkItem classifies it.
SyncResults == {"nil", "requeue", "ignore", "other"}
IsRequeueError(e) == e = "requeue"
IsIgnoreError(e) == e = "ignore"

\* The restore object an informer event carries, as updateRestore reads it.
\* tcErr, recoveryMode and volumesReady are read only in the phases that fetch
\* the cluster.
RestoreEvents ==
  [ phase : {"Invalid", "Complete", "Failed", "Scheduled", "Running", "New"},
    tcErr : {FALSE}, recoveryMode : {FALSE}, volumesReady : {FALSE} ]
  \cup [ phase : {"DataComplete"},
         tcErr : BOOLEAN, recoveryMode : BOOLEAN, volumesReady : {FALSE} ]
  \cup [ phase : {"VolumeComplete"},
         tcErr : BOOLEAN, recoveryMode : {FALSE}, volumesReady : BOOLEAN ]

\* updateRestore, lines 156-233: whether the object is enqueued.
updateRestore_enqueues(e) ==
  IF e.phase \in {"Invalid", "Complete", "Failed"} THEN FALSE
  ELSE IF e.phase = "DataComplete" THEN ~e.tcErr /\ e.recoveryMode
  ELSE IF e.phase = "VolumeComplete" THEN ~e.tcErr /\ ~e.volumesReady
  ELSE IF e.phase \in {"Scheduled", "Running"} THEN FALSE
  ELSE TRUE

\* enqueueRestore, lines 237-244: nothing is added when the key cannot be made.
enqueueRestore(q, k, keyErr) == IF keyErr THEN q ELSE QueueAdd(q, k)

\* Variant of processNextWorkItem_handle that requeues ignorable errors too.
processNextWorkItem_handle_requeueIgnored(q, k, err) ==
  IF err # "nil"
  THEN [queue |-> QueueAddRateLimited(q, k), did |-> "requeue"]
  ELSE [queue |-> QueueForget(q, k), did |-> "forget"]

\* processNextWorkItem, lines 104-116: what is done with sync's result.
processNextWorkItem_handle(q, k, err) ==
  IF err # "nil"
  THEN IF IsRequeueError(err)
       THEN [queue |-> QueueAddRateLimited(q, k), did |-> "requeue"]
       ELSE IF IsIgnoreError(err)
       THEN [queue |-> q, did |-> "none"]
       ELSE [queue |-> QueueAddRateLimited(q, k), did |-> "requeue"]
  ELSE [queue |-> QueueForget(q, k), did |-> "forget"]

\* Run, lines 80-82: starts the workers.
Run(n) ==
  /\ started = 0
  /\ started' = n
  /\ rworker' = [w \in RestoreWorkers |-> IF w <= n THEN [IdleWorker EXCEPT !.pc = "get"]
                                          ELSE IdleWorker]
  /\ UNCHANGED <<queue, TiFlashVars>>

\* Run, lines 75 and 84: stopCh closes and the queue shuts down.
Stop ==
  /\ started > 0 /\ ~queue.shuttingDown
  /\ queue' = QueueShutDown(queue)
  /\ UNCHANGED <<rworker, started, TiFlashVars>>

\* AddFunc and UpdateFunc: updateRestore on the event's object.
UpdateEvent(k, e, keyErr) ==
  /\ queue' = IF updateRestore_enqueues(e) THEN enqueueRestore(queue, k, keyErr) ELSE queue
  /\ UNCHANGED <<rworker, started, TiFlashVars>>

\* DeleteFunc: enqueueRestore on the deleted object.
DeleteEvent(k, keyErr) ==
  /\ queue' = enqueueRestore(queue, k, keyErr)
  /\ UNCHANGED <<rworker, started, TiFlashVars>>

\* The delaying queue hands a key it held back to Add.
DelayElapsed(k) ==
  /\ k \in queue.waiting
  /\ queue' = QueueAdd([queue EXCEPT !.waiting = @ \ {k}], k)
  /\ UNCHANGED <<rworker, started, TiFlashVars>>

\* processNextWorkItem, lines 99-104: Get blocks on an empty queue, quits on a
\* queue shut down and drained, and otherwise sync starts on the key.
WorkerGet(w) ==
  /\ rworker[w].pc = "get"
  /\ IF queue.items # <<>>
     THEN /\ queue' = QueueGet(queue)
          /\ rworker' = [rworker EXCEPT ![w] =
               [pc |-> "sync", key |-> Head(queue.items), err |-> "none", dones |-> 0,
                did |-> "none", failuresAtGet |-> queue.failures[Head(queue.items)]]]
     ELSE /\ queue.shuttingDown
          /\ rworker' = [rworker EXCEPT ![w].pc = "exited"]
          /\ UNCHANGED queue
  /\ UNCHANGED <<started, TiFlashVars>>

\* sync returns; a result that is requeued counts in the limiter.
SyncReturns(w, err) ==
  /\ rworker[w].pc = "sync"
  /\ err \in {"requeue", "other"} => queue.failures[rworker[w].key] < MaxRequeues
  /\ rworker' = [rworker EXCEPT ![w].pc = "handle", ![w].err = err]
  /\ UNCHANGED <<queue, started, TiFlashVars>>

\* processNextWorkItem, lines 104-116.
HandleResult(w) ==
  /\ rworker[w].pc = "handle"
  /\ LET h == processNextWorkItem_handle(queue, rworker[w].key, rworker[w].err)
     IN /\ queue' = h.queue
        /\ rworker' = [rworker EXCEPT ![w].pc = "defer", ![w].did = h.did]
  /\ UNCHANGED <<started, TiFlashVars>>

\* processNextWorkItem, lines 103 and 117: the deferred Done, then the next
\* item; of the finished item only its key and the count of Done calls remain.
WorkerDone(w) ==
  /\ rworker[w].pc = "defer"
  /\ queue' = QueueDone(queue, rworker[w].key)
  /\ rworker' = [rworker EXCEPT ![w] =
       [IdleWorker EXCEPT !.pc = "get", !.key = rworker[w].key,
                          !.dones = rworker[w].dones + 1]]
  /\ UNCHANGED <<started, TiFlashVars>>

NextRestore ==
  \/ \E n \in RestoreWorkers : Run(n)
  \/ Stop
  \/ \E k \in RestoreKeys, e \in RestoreEvents, keyErr \in BOOLEAN : UpdateEvent(k, e, keyErr)
  \/ \E k \in RestoreKeys, keyErr \in BOOLEAN : DeleteEvent(k, keyErr)
  \/ \E k \in RestoreKeys : DelayElapsed(k)
  \/ \E w \in RestoreWorkers : WorkerGet(w)
  \/ \E w \in RestoreWorkers, err \in SyncResults : SyncReturns(w, err)
  \/ \E w \in RestoreWorkers : HandleResult(w)
  \/ \E w \in RestoreWorkers : WorkerDone(w)

InitRestore ==
  InitWith({}, {CHOOSE t \in ConcTopologies : TRUE}, {NilConfig})

SpecRestore == InitRestore /\ [][NextRestore]_vars

\* Worker w holds an item: between Get's return and the deferred Done.
HoldsItem(w) == rworker[w].pc \in {"sync", "handle", "defer"}

\* C14 restore work items: no two workers hold the same key at the same time;
\* a dequeued key stays in processing until its one Done, which follows the
\* handling of sync's result; a requeue error or any other non-ignore error
\* re-adds the key rate-limited, an ignore error re-adds nothing, and no error
\* forgets the key's rate-limit history.
C14_WorkItemProcessing ==
  /\ \A w1, w2 \in RestoreWorkers :
       w1 # w2 /\ HoldsItem(w1) /\ HoldsItem(w2) => rworker[w1].key # rworker[w2].key
  /\ \A w \in RestoreWorkers :
       LET r == rworker[w]
       IN /\ HoldsItem(w) => r.key \in queue.processing /\ r.dones = 0
          /\ r.pc \in {"get", "exited"} /\ r.key # NoKey =>
               /\ r.dones = 1
               /\ r.key \in queue.processing =>
                    \E o \in RestoreWorkers : HoldsItem(o) /\ rworker[o].key = r.key
          /\ r.pc \in {"sync", "handle"} => r.did = "none"
          /\ r.pc = "defer" =>
               r.did = CASE r.err = "nil" -> "forget"
                         [] r.err = "ignore" -> "none"
                         [] OTHER -> "requeue"
          /\ r.pc = "defer" =>
               CASE r.err = "nil" -> queue.failures[r.key] = 0
                 [] r.err = "ignore" -> queue.failures[r.key] = r.failuresAtGet
                 [] OTHER ->
                      /\ queue.failures[r.key] = r.failuresAtGet + 1
                      /\ ~queue.shuttingDown => r.key \in queue.waiting \cup queue.dirty

C14_Witness ==
  \E w1, w2 \in RestoreWorkers :
    /\ w1 # w2
    /\ rworker[w1].pc = "defer" /\ rworker[w1].err = "requeue"
    /\ rworker[w1].key \in queue.waiting /\ rworker[w1].key \notin queue.dirty
    /\ rworker[w2].pc = "sync" /\ rworker[w2].dones = 0
    /\ rworker[w2].key # rworker[w1].key
    /\ queue.failures[rworker[w2].key] > 0

====
